---------------------------- MODULE Spec2Model ----------------------------
(***************************************************************************)
(* Battelligence.py: a Streamlit battery-management dashboard.             *)
(*                                                                         *)
(* The session registry st.session_state.cells_data, the five pages that   *)
(* read and write it, the status classifier get_cell_status and the mock   *)
(* telemetry generator generate_mock_data.                                 *)
(*                                                                         *)
(* Quantities are fixed-point integers in thousandths of their unit        *)
(* (3.2 V = 3200, 0.5 A = 500, 25.0 C = 25000, 6.4 Wh = 6400), so that     *)
(* round(x, 2) and round(x, 1) are real roundings (to multiples of 10 and  *)
(* of 100) and not the identity.  Binary floating-point representation     *)
(* error below that resolution is not modelled.                            *)
(*                                                                         *)
(* One script run (Streamlit re-executes the file top to bottom on every   *)
(* widget event) is one action, except that the Real-time Monitor's        *)
(* time.sleep / st.rerun and the Control Panel's st.rerun end the run      *)
(* early and are followed by a separate run.                               *)
(***************************************************************************)
EXTENDS Integers, Sequences, FiniteSets

VARIABLES
    cells_data,       \* st.session_state.cells_data: the records in insertion order
    historical_data,  \* len(st.session_state.historical_data)
    page,             \* the sidebar selectbox
    auto_refresh,     \* the Real-time Monitor's sidebar checkbox
    pc,               \* "idle": run finished; "sleep": in time.sleep; "rerun": st.rerun() raised
    view,             \* what the last script run put on the screen
    perf_data,        \* the Analysis page's perf_data rows of the last run
    steps,            \* slider edits and mock rounds so far (bounds the exploration)
    call              \* the last direct application of a function (SpecFn only)

vars == <<cells_data, historical_data, page, auto_refresh, pc, view, perf_data, steps, call>>

----------------------------------------------------------------------------
(* Bounds of the exploration                                               *)

\* registry sizes explored (the slider allows 1..16)
MaxCells == 2
\* slider edits plus mock-telemetry rounds explored in one behaviour
MaxSteps == 1

\* (cell type, current, temperature) a Configuration expander can hold when
\* Save Configuration is pressed: the selectbox value, the unbounded
\* number_input and round(random.uniform(25, 40), 1)
ConfigDraws ==
    { <<"lfp", 2000, 25000>>, <<"nmc", -1000, 40000>>,
      <<"lto", 7, 31200>>,    <<"lco", 10500, 25000>> }

\* the draws explored for expander i: all of them for the first cell, two
\* for the second, one for the others
ConfigDrawsAt(i) ==
    IF i = 1 THEN ConfigDraws
    ELSE IF i = 2 THEN { <<"lfp", 2000, 25000>>, <<"nmc", -1000, 40000>> }
    ELSE { <<"lto", 7, 31200>> }

\* outputs of random.random() in thousandths, three per generate_mock_data call
RandomDraws == { <<1000, 1000, 1000>>, <<520, 4, 417>> }

\* positions the user drags a Control Panel slider to
SliderCurrents == { -10000, 5000 }
SliderTemps == { 0, 60000 }

----------------------------------------------------------------------------
(* Arithmetic                                                              *)

Abs(x) == IF x < 0 THEN -x ELSE x

\* the integer nearest to n / d (d > 0), ties to the even one: Python's round()
RoundHalfEven(n, d) ==
    LET q == n \div d
        r == n % d
    IN  IF 2 * r < d THEN q
        ELSE IF 2 * r > d THEN q + 1
        ELSE IF q % 2 = 0 THEN q ELSE q + 1

\* round(x, 2) and round(x, 1) of a value in thousandths
Round2(x) == 10 * RoundHalfEven(x, 10)
Round1(x) == 100 * RoundHalfEven(x, 100)

\* round(voltage * current, 2): the product of two thousandths is in millionths
Round2Product(v, c) == 10 * RoundHalfEven(v * c, 10000)

\* random.uniform(a, b) = a + (b - a) * random(), random() = p / 1000
Uniform(a, b, p) == a + ((b - a) * p) \div 1000

----------------------------------------------------------------------------
(* Chemistry table and status classifier                                   *)

CELL_CONFIGS ==
    [ lfp |-> [nominal |-> 3200, min |-> 2800, max |-> 3600],
      nmc |-> [nominal |-> 3600, min |-> 3200, max |-> 4000],
      lto |-> [nominal |-> 2400, min |-> 1500, max |-> 2800],
      lco |-> [nominal |-> 3700, min |-> 3000, max |-> 4200] ]

CellTypes == DOMAIN CELL_CONFIGS

\* a raised exception, as a value: every operator that may raise returns a record
KeyError == [error |-> "KeyError"]

\* str.lower() on the identifiers the model uses
Lower(s) ==
    CASE s = "LFP" -> "lfp"
      [] s = "NMC" -> "nmc"
      [] s = "Lto" -> "lto"
      [] OTHER -> s

\* CELL_CONFIGS.get(cell_type.lower(), CELL_CONFIGS["lfp"])
ConfigGet(cell_type) ==
    IF Lower(cell_type) \in DOMAIN CELL_CONFIGS
    THEN CELL_CONFIGS[Lower(cell_type)]
    ELSE CELL_CONFIGS["lfp"]

\* CELL_CONFIGS[cell_type]
ConfigIndex(cell_type) ==
    IF cell_type \in DOMAIN CELL_CONFIGS
    THEN CELL_CONFIGS[cell_type]
    ELSE KeyError

get_cell_status_le(voltage, cell_type) ==
    LET config == ConfigGet(cell_type)
    IN  IF voltage <= config.min THEN "Critical"
        ELSE IF voltage > config.max THEN "Overcharged"
        ELSE IF config.min <= voltage /\ voltage <= config.max THEN "Normal"
        ELSE "Warning"

get_cell_status(voltage, cell_type) ==
    LET config == ConfigGet(cell_type)
    IN  IF voltage < config.min THEN "Critical"
        ELSE IF voltage > config.max THEN "Overcharged"
        ELSE IF config.min <= voltage /\ voltage <= config.max THEN "Normal"
        ELSE "Warning"

----------------------------------------------------------------------------
(* Mock telemetry                                                          *)

generate_mock_data_hot(cell_type, base_voltage, base_current, rnd) ==
    [ voltage |-> Round2(base_voltage + Uniform(-100, 100, rnd[1])),
      current |-> Round2(base_current + Uniform(-500, 500, rnd[2])),
      temp    |-> Round1(Uniform(25000, 54000, rnd[3])) ]

\* rnd: the three random.random() outputs the call consumes.  The timestamp
\* (datetime.now()) is wall-clock time and is left out.
generate_mock_data(cell_type, base_voltage, base_current, rnd) ==
    [ voltage |-> Round2(base_voltage + Uniform(-100, 100, rnd[1])),
      current |-> Round2(base_current + Uniform(-500, 500, rnd[2])),
      temp    |-> Round1(Uniform(25000, 45000, rnd[3])) ]

\* dict.update(generate_mock_data(...)): voltage, current and temp are
\* overwritten, capacity is not among the keys
UpdateWithMock(rec, mock) ==
    [rec EXCEPT !.voltage = mock.voltage, !.current = mock.current, !.temp = mock.temp]

----------------------------------------------------------------------------
(* Records                                                                 *)

\* one entry of cells_data as the Configuration page builds it; d is the
\* expander's (cell type, current, temperature); key stands for the dict key
\* f"cell_{i+1}_{cell_type}"
NewCell(i, d) ==
    LET config == CELL_CONFIGS[d[1]]
        voltage == config.nominal
    IN  [ key         |-> <<i, d[1]>>,
          voltage     |-> voltage,
          current     |-> d[2],
          temp        |-> d[3],
          capacity    |-> Round2Product(voltage, d[2]),
          min_voltage |-> config.min,
          max_voltage |-> config.max,
          cell_type   |-> d[1] ]

\* "if not st.session_state.cells_data": the guard of the four dependent pages
RegistryEmpty_never(cells) == FALSE

RegistryEmpty(cells) == Len(cells) = 0

----------------------------------------------------------------------------
(* Control Panel                                                           *)

NoEdit == [cell |-> 0, field |-> "none", value |-> 0]

\* st.slider raises when value is outside [min_value, max_value]
SlidersAccept(rec) ==
    /\ rec.min_voltage <= rec.voltage /\ rec.voltage <= rec.max_voltage
    /\ -10000 <= rec.current /\ rec.current <= 10000
    /\ 0 <= rec.temp /\ rec.temp <= 60000

\* what the three sliders of cell i return: the record's own values (the
\* slider's value= argument), but for the one slider the user dragged
SliderValue(rec, i, field, edit) ==
    IF edit.cell = i /\ edit.field = field THEN edit.value
    ELSE IF field = "voltage" THEN rec.voltage
    ELSE IF field = "current" THEN rec.current
    ELSE rec.temp

SliderWrite_into_min(rec, new_voltage, new_current, new_temp) ==
    [rec EXCEPT !.voltage = new_voltage,
                !.min_voltage = new_voltage,
                !.current = new_current,
                !.temp = new_temp,
                !.capacity = Round2Product(new_voltage, new_current)]

\* "# Update values": the four assignments into cells_data[cell_name], which
\* is the registry's own record (dict.copy() is shallow)
SliderWrite(rec, new_voltage, new_current, new_temp) ==
    [rec EXCEPT !.voltage = new_voltage,
                !.current = new_current,
                !.temp = new_temp,
                !.capacity = Round2Product(new_voltage, new_current)]

\* the loop over the expanders, from cell i on; ok is FALSE when a slider
\* raised, which ends the script run there
RECURSIVE ControlLoop(_, _, _)
ControlLoop(cells, i, edit) ==
    IF i > Len(cells) THEN [cells |-> cells, ok |-> TRUE]
    ELSE IF ~SlidersAccept(cells[i]) THEN [cells |-> cells, ok |-> FALSE]
    ELSE ControlLoop(
            [cells EXCEPT ![i] = SliderWrite(cells[i],
                                    SliderValue(cells[i], i, "voltage", edit),
                                    SliderValue(cells[i], i, "current", edit),
                                    SliderValue(cells[i], i, "temp", edit))],
            i + 1, edit)

\* Randomize Values: one record's update; KeyError when the chemistry is not
\* in the table
RandomizeCell(rec, rnd) ==
    LET config == ConfigIndex(rec.cell_type)
    IN  IF config = KeyError THEN KeyError
        ELSE UpdateWithMock(rec,
                generate_mock_data(rec.cell_type, config.nominal, rec.current, rnd))

StopCell_current_only(rec) == [rec EXCEPT !.current = 0]

\* Emergency Stop: one record's two assignments
StopCell(rec) == [rec EXCEPT !.current = 0, !.capacity = 0]

healthy_cells(cells) ==
    Cardinality({i \in 1..Len(cells) :
                    get_cell_status(cells[i].voltage, cells[i].cell_type) = "Normal"})

ZeroDivisionError == [error |-> "ZeroDivisionError"]

health_percentage_not_critical(cells) ==
    IF Len(cells) = 0 THEN ZeroDivisionError
    ELSE [ num |-> 100 * Cardinality({i \in 1..Len(cells) :
                      get_cell_status(cells[i].voltage, cells[i].cell_type) # "Critical"}),
           den |-> Len(cells) ]

\* (healthy_cells / len(cells_data)) * 100, kept as the exact fraction num / den
health_percentage(cells) ==
    IF Len(cells) = 0 THEN ZeroDivisionError
    ELSE [num |-> 100 * healthy_cells(cells), den |-> Len(cells)]

----------------------------------------------------------------------------
(* Analysis                                                                *)

\* round(a / b, 3) of two values in thousandths, in thousandths
DivRound3(a, b) ==
    IF b = 0 THEN ZeroDivisionError
    ELSE IF b > 0 THEN [value |-> RoundHalfEven(a * 1000, b)]
    ELSE [value |-> RoundHalfEven((-a) * 1000, -b)]

power_density_unguarded(data) == DivRound3(data.capacity, data.temp)

\* round(data["capacity"] / data["temp"] if data["temp"] > 0 else 0, 3)
power_density(data) ==
    IF data.temp > 0 THEN DivRound3(data.capacity, data.temp) ELSE [value |-> 0]

\* round((voltage / CELL_CONFIGS[cell_type]["max"]) * 100, 1), in thousandths of a percent
efficiency(data) ==
    LET config == ConfigIndex(data.cell_type)
    IN  IF config = KeyError THEN KeyError
        ELSE [value |-> 100 * RoundHalfEven(data.voltage * 1000, config.max)]

PerfRow(data) ==
    [efficiency |-> efficiency(data), power_density |-> power_density(data)]

\* a row whose computation raised
RowRaised(row) ==
    row.efficiency = KeyError \/ row.power_density = ZeroDivisionError

----------------------------------------------------------------------------
(* Real-time Monitor                                                       *)

\* "# Update with simulated real-time data": one record's update
RefreshCell(rec, rnd) ==
    LET config == ConfigIndex(rec.cell_type)
    IN  IF config = KeyError THEN KeyError
        ELSE UpdateWithMock(rec,
                generate_mock_data(rec.cell_type, rec.voltage, rec.current, rnd))

\* the alert list: the cells with a status alert and those with a temperature alert
Alerts(cells) ==
    [ status |-> {i \in 1..Len(cells) :
                    get_cell_status(cells[i].voltage, cells[i].cell_type)
                        \in {"Critical", "Overcharged"}},
      temp   |-> {i \in 1..Len(cells) : cells[i].temp > 45000} ]

\* "# Keep only last 100 snapshots"
HistoryCap == 100

AppendSnapshot(n) == IF n + 1 > HistoryCap THEN HistoryCap ELSE n + 1

----------------------------------------------------------------------------
(* Session state and script runs                                           *)

Pages == {"Dashboard", "Configuration", "Analysis", "Control Panel", "Real-time Monitor"}

NoCall == [op |-> "none"]

\* a fresh session: the four "if ... not in st.session_state" defaults, and the
\* first script run, which renders the selectbox's first option, the
\* Dashboard, over the empty registry
Init ==
    /\ cells_data = <<>>
    /\ historical_data = 0
    /\ page = "Dashboard"
    /\ auto_refresh = TRUE
    /\ pc = "idle"
    /\ view = "configure_first"
    /\ perf_data = <<>>
    /\ steps = 0
    /\ call = NoCall

\* the Control Panel views in which the sliders and the three buttons are on screen
ControlShown == {"body", "applied", "stopped"}

\* Configuration page: the form
RunConfiguration ==
    /\ view' = "form"
    /\ pc' = "idle"
    /\ perf_data' = <<>>
    /\ auto_refresh' = TRUE
    /\ UNCHANGED <<cells_data, historical_data, steps>>

\* Dashboard page: the guard, then the metrics, the table and the charts
RunDashboard ==
    /\ view' = IF RegistryEmpty(cells_data) THEN "configure_first" ELSE "body"
    /\ pc' = "idle"
    /\ perf_data' = <<>>
    /\ auto_refresh' = TRUE
    /\ UNCHANGED <<cells_data, historical_data, steps>>

\* Analysis page: the guard, then perf_data and the three tabs
RunAnalysis ==
    LET rows == [i \in 1..Len(cells_data) |-> PerfRow(cells_data[i])]
    IN  /\ IF RegistryEmpty(cells_data)
           THEN view' = "configure_first" /\ perf_data' = <<>>
           ELSE IF \E i \in 1..Len(rows) : RowRaised(rows[i])
           THEN view' = "exception" /\ perf_data' = <<>>
           ELSE view' = "body" /\ perf_data' = rows
        /\ pc' = "idle"
        /\ auto_refresh' = TRUE
        /\ UNCHANGED <<cells_data, historical_data, steps>>

\* Control Panel page with no button pressed: the guard, then the slider loop
\* (which writes into the registry's records), then the status column
RunControl(edit) ==
    LET r == ControlLoop(cells_data, 1, edit)
    IN  /\ IF RegistryEmpty(cells_data)
           THEN view' = "configure_first" /\ UNCHANGED cells_data
           ELSE /\ cells_data' = r.cells
                /\ view' = IF r.ok THEN "body" ELSE "exception"
        /\ pc' = "idle"
        /\ perf_data' = <<>>
        /\ auto_refresh' = TRUE
        /\ UNCHANGED <<historical_data>>

\* Real-time Monitor page below the auto-refresh block: mock telemetry into
\* every record, the charts, the alerts, the snapshot
MonitorBody(rnd) ==
    LET cells == [i \in 1..Len(cells_data) |-> RefreshCell(cells_data[i], rnd[i])]
        alerts == Alerts(cells)
    IN  IF \E i \in 1..Len(cells) : cells[i] = KeyError
        THEN view' = "exception" /\ UNCHANGED <<cells_data, historical_data>>
        ELSE /\ cells_data' = cells
             /\ view' = IF alerts.status = {} /\ alerts.temp = {}
                        THEN "all_normal" ELSE "alerts"
             /\ historical_data' = AppendSnapshot(historical_data)

\* Real-time Monitor page: the guard, the two sidebar widgets, then either
\* time.sleep (the run is left inside it) or the body
RunMonitor(checked, rnd) ==
    /\ perf_data' = <<>>
    /\ IF RegistryEmpty(cells_data)
       THEN /\ view' = "configure_first"
            /\ pc' = "idle"
            /\ auto_refresh' = TRUE
            /\ UNCHANGED <<cells_data, historical_data, steps>>
       ELSE /\ auto_refresh' = checked
            /\ IF checked
               THEN /\ pc' = "sleep"
                    /\ view' = "none"
                    /\ UNCHANGED <<cells_data, historical_data, steps>>
               ELSE /\ steps < MaxSteps
                    /\ steps' = steps + 1
                    /\ pc' = "idle"
                    /\ MonitorBody(rnd)

DrawsFor(cells) == [1..Len(cells) -> RandomDraws]

NoDraws == [i \in 1..MaxCells + 1 |-> <<0, 0, 0>>]

\* the user picks another page in the sidebar: a script run of that page.  A
\* run left in time.sleep is abandoned for the new one.
Navigate(p) ==
    /\ pc \in {"idle", "sleep"}
    /\ p # page
    /\ page' = p
    /\ UNCHANGED call
    /\ CASE p = "Configuration" -> RunConfiguration
         [] p = "Dashboard" -> RunDashboard
         [] p = "Analysis" -> RunAnalysis
         [] p = "Control Panel" -> RunControl(NoEdit) /\ UNCHANGED steps
         [] p = "Real-time Monitor" -> RunMonitor(TRUE, NoDraws)

\* Save Configuration pressed with num_cells = n and the expanders holding d
SaveConfiguration(n, d) ==
    /\ pc = "idle"
    /\ page = "Configuration"
    /\ cells_data' = [i \in 1..n |-> NewCell(i, d[i])]
    /\ view' = "saved"
    /\ UNCHANGED <<historical_data, page, auto_refresh, pc, perf_data, steps, call>>

\* the user drags one slider of cell i: a script run with no button pressed
SliderEdit(i, field, value) ==
    /\ pc = "idle"
    /\ page = "Control Panel"
    /\ view \in ControlShown
    /\ steps < MaxSteps
    /\ steps' = steps + 1
    /\ RunControl([cell |-> i, field |-> field, value |-> value])
    /\ UNCHANGED <<page, call>>

\* Apply Changes pressed
ApplyChanges ==
    LET r == ControlLoop(cells_data, 1, NoEdit)
    IN  /\ pc = "idle"
        /\ page = "Control Panel"
        /\ view \in ControlShown
        /\ cells_data' = r.cells
        /\ view' = IF r.ok THEN "applied" ELSE "exception"
        /\ UNCHANGED <<historical_data, page, auto_refresh, pc, perf_data, steps, call>>

\* Randomize Values pressed: the update loop, the assignment, st.rerun()
RandomizeValues(rnd) ==
    LET r == ControlLoop(cells_data, 1, NoEdit)
        cells == [i \in 1..Len(r.cells) |-> RandomizeCell(r.cells[i], rnd[i])]
    IN  /\ pc = "idle"
        /\ page = "Control Panel"
        /\ view \in ControlShown
        /\ steps < MaxSteps
        /\ steps' = steps + 1
        /\ IF ~r.ok \/ \E i \in 1..Len(cells) : cells[i] = KeyError
           THEN cells_data' = r.cells /\ view' = "exception" /\ pc' = "idle"
           ELSE cells_data' = cells /\ view' = "none" /\ pc' = "rerun"
        /\ UNCHANGED <<historical_data, page, auto_refresh, perf_data, call>>

\* Emergency Stop pressed
EmergencyStop ==
    LET r == ControlLoop(cells_data, 1, NoEdit)
    IN  /\ pc = "idle"
        /\ page = "Control Panel"
        /\ view \in ControlShown
        /\ IF r.ok
           THEN /\ cells_data' = [i \in 1..Len(r.cells) |-> StopCell(r.cells[i])]
                /\ view' = "stopped"
           ELSE cells_data' = r.cells /\ view' = "exception"
        /\ UNCHANGED <<historical_data, page, auto_refresh, pc, perf_data, steps, call>>

\* the user changes a sidebar widget of the monitor (both are on screen once
\* the guard has passed): a script run of the monitor in which the Auto
\* Refresh checkbox reads checked, its old value if the user moved the Refresh
\* Interval slider and the other one if the user clicked the checkbox.  A run
\* left in time.sleep is abandoned for the new one.
MonitorWidget(checked, rnd) ==
    /\ pc \in {"idle", "sleep"}
    /\ page = "Real-time Monitor"
    /\ view # "configure_first"
    /\ RunMonitor(checked, rnd)
    /\ UNCHANGED <<page, call>>

\* time.sleep(refresh_interval) returns and st.rerun() ends the run
SleepThenRerun ==
    /\ pc = "sleep"
    /\ pc' = "rerun"
    /\ UNCHANGED <<cells_data, historical_data, page, auto_refresh, view, perf_data, steps, call>>

\* the script run st.rerun() asked for: the same page with the same widget
\* values (a slider whose value= argument changed starts from that value)
Rerun ==
    /\ pc = "rerun"
    /\ UNCHANGED <<page, call>>
    /\ IF page = "Control Panel"
       THEN RunControl(NoEdit) /\ UNCHANGED steps
       ELSE RunMonitor(auto_refresh, NoDraws)

ConfigsOf(n) == {d \in [1..n -> ConfigDraws] : \A i \in 1..n : d[i] \in ConfigDrawsAt(i)}

SliderPositions(rec, field) ==
    IF field = "voltage" THEN {rec.min_voltage, rec.max_voltage}
    ELSE IF field = "current" THEN SliderCurrents
    ELSE SliderTemps

Next ==
    \/ \E p \in Pages : Navigate(p)
    \/ \E n \in 1..MaxCells : \E d \in ConfigsOf(n) : SaveConfiguration(n, d)
    \/ \E i \in 1..Len(cells_data) : \E field \in {"voltage", "current", "temp"} :
          \E value \in SliderPositions(cells_data[i], field) : SliderEdit(i, field, value)
    \/ ApplyChanges
    \/ \E rnd \in DrawsFor(cells_data) : RandomizeValues(rnd)
    \/ EmergencyStop
    \/ \E checked \in BOOLEAN : \E rnd \in DrawsFor(cells_data) : MonitorWidget(checked, rnd)
    \/ SleepThenRerun
    \/ Rerun

Spec == Init /\ [][Next]_vars

----------------------------------------------------------------------------
(* The functions applied directly to bounded inputs: a behaviour of SpecFn  *)
(* applies one function to one input                                       *)

\* voltages around every bound of the table, in thousandths of a volt
FnVoltages == {100 * k + e : k \in 14..43, e \in {-1, 0, 1}}

\* chemistry identifiers, in the table and not
FnCellTypes == {"lfp", "nmc", "lto", "lco", "LFP", "nimh", ""}

FnBaseVoltages == {2400, 3204, 3655}
FnBaseCurrents == {-1000, 7, 2000, 10500}
FnRandom == {0, 4, 250, 506, 999, 1000}

\* (voltage, cell type) pairs a registry handed to health_percentage is made of
FnHealthCells ==
    {[voltage |-> v, cell_type |-> c] : v \in {2700, 3200, 4500}, c \in {"lfp", "nmc"}}

\* the places that look a record's chemistry up in the table
LookupSites == {"get_cell_status", "Randomize Values", "efficiency", "radar", "Real-time Monitor"}

\* the lookup expression of each place: .get with a default in the
\* classifier, plain indexing in the other four
LookupAt(site, cell_type) ==
    IF site = "get_cell_status" THEN ConfigGet(cell_type) ELSE ConfigIndex(cell_type)

CallGetCellStatus(voltage, cell_type) ==
    /\ call = NoCall
    /\ call' = [op |-> "get_cell_status", voltage |-> voltage, cell_type |-> cell_type,
                result |-> get_cell_status(voltage, cell_type)]
    /\ UNCHANGED <<cells_data, historical_data, page, auto_refresh, pc, view, perf_data, steps>>

CallLookup(site, cell_type) ==
    /\ call = NoCall
    /\ call' = [op |-> "lookup", site |-> site, cell_type |-> cell_type,
                result |-> LookupAt(site, cell_type)]
    /\ UNCHANGED <<cells_data, historical_data, page, auto_refresh, pc, view, perf_data, steps>>

CallGenerateMockData(cell_type, base_voltage, base_current, rnd) ==
    /\ call = NoCall
    /\ call' = [op |-> "generate_mock_data",
                base_voltage |-> base_voltage, base_current |-> base_current,
                result |-> generate_mock_data(cell_type, base_voltage, base_current, rnd)]
    /\ UNCHANGED <<cells_data, historical_data, page, auto_refresh, pc, view, perf_data, steps>>

CallHealthPercentage(cells) ==
    /\ call = NoCall
    /\ call' = [op |-> "health_percentage", cells |-> cells,
                result |-> health_percentage(cells)]
    /\ UNCHANGED <<cells_data, historical_data, page, auto_refresh, pc, view, perf_data, steps>>

NextFn ==
    \/ \E v \in FnVoltages, c \in FnCellTypes : CallGetCellStatus(v, c)
    \/ \E site \in LookupSites, c \in FnCellTypes : CallLookup(site, c)
    \/ \E bv \in FnBaseVoltages, bc \in FnBaseCurrents :
          \E rnd \in FnRandom \X FnRandom \X FnRandom :
             CallGenerateMockData("lfp", bv, bc, rnd)
    \/ \E n \in 1..MaxCells : \E cells \in [1..n -> FnHealthCells] :
          CallHealthPercentage(cells)

SpecFn == Init /\ [][NextFn]_vars

----------------------------------------------------------------------------
(* Properties                                                              *)

AllCells == 1..Len(cells_data)

Product(rec) == Round2Product(rec.voltage, rec.current)

\* C1: for every voltage and every chemistry of the table, get_cell_status
\* returns Critical iff voltage < min, Overcharged iff voltage > max and
\* Normal iff min <= voltage <= max, and never Warning.
C1_StatusPartition ==
    (call.op = "get_cell_status" /\ call.cell_type \in CellTypes) =>
        LET lo == CELL_CONFIGS[call.cell_type].min
            hi == CELL_CONFIGS[call.cell_type].max
        IN  /\ (call.result = "Critical") <=> (call.voltage < lo)
            /\ (call.result = "Overcharged") <=> (call.voltage > hi)
            /\ (call.result = "Normal") <=> (lo <= call.voltage /\ call.voltage <= hi)
            /\ call.result # "Warning"

\* an lfp cell exactly at its minimum voltage classifies Normal
C1_Witness ==
    /\ call.op = "get_cell_status"
    /\ call.cell_type = "lfp"
    /\ call.voltage = 2800
    /\ call.result = "Normal"

\* C2: whenever a script run has finished, every record's capacity equals
\* round(voltage * current, 2).
C2_CapacityIsProduct ==
    pc = "idle" => \A i \in AllCells : cells_data[i].capacity = Product(cells_data[i])

\* C3: pressing Emergency Stop sets every record's current and capacity to 0
\* and leaves the number of records and every record's key, voltage,
\* temperature, chemistry and bounds as they were in the registry before the
\* press.
C3_EmergencyStopFrame ==
    [][EmergencyStop =>
        /\ view' = "stopped"
        /\ Len(cells_data') = Len(cells_data)
        /\ \A i \in AllCells :
              /\ cells_data'[i].current = 0
              /\ cells_data'[i].capacity = 0
              /\ cells_data'[i].voltage = cells_data[i].voltage
              /\ cells_data'[i].temp = cells_data[i].temp
              /\ cells_data'[i].key = cells_data[i].key
              /\ cells_data'[i].cell_type = cells_data[i].cell_type
              /\ cells_data'[i].min_voltage = cells_data[i].min_voltage
              /\ cells_data'[i].max_voltage = cells_data[i].max_voltage]_vars

\* Emergency Stop has acted on a registry of two or more cells, one of which
\* carried a current and a voltage dragged away from nominal
C3_Witness ==
    /\ page = "Control Panel"
    /\ view = "stopped"
    /\ Len(cells_data) >= 2
    /\ \E i \in AllCells :
          /\ cells_data[i].voltage # CELL_CONFIGS[cells_data[i].cell_type].nominal
          /\ cells_data[i].current = 0
          /\ cells_data[i].capacity = 0

\* the number of records of a registry whose voltage lies within the bounds of
\* their chemistry
NormalCount(cells) ==
    Cardinality({i \in 1..Len(cells) :
        /\ CELL_CONFIGS[cells[i].cell_type].min <= cells[i].voltage
        /\ cells[i].voltage <= CELL_CONFIGS[cells[i].cell_type].max})

SpecExample == <<[voltage |-> 3200, cell_type |-> "lfp"], [voltage |-> 4500, cell_type |-> "nmc"]>>

\* C4: for a non-empty registry the health percentage is 100 * (records within
\* their chemistry's bounds) / (records): 100 when all are, 0 when none is,
\* 50 for {lfp 3.2 V, nmc 4.5 V}.
C4_HealthPercentage ==
    call.op = "health_percentage" =>
        LET n == Len(call.cells)
            k == NormalCount(call.cells)
        IN  /\ "error" \notin DOMAIN call.result
            /\ call.result.num * n = 100 * k * call.result.den
            /\ k = n => call.result.num = 100 * call.result.den
            /\ k = 0 => call.result.num = 0
            /\ call.cells = SpecExample => call.result.num = 50 * call.result.den

\* the spec's example registry gives 50 %
C4_Witness ==
    /\ call.op = "health_percentage"
    /\ call.cells = SpecExample
    /\ call.result.num = 50 * call.result.den

DependentPages == {"Dashboard", "Control Panel", "Analysis", "Real-time Monitor"}

\* C5: with an empty registry each of the four dependent pages shows the
\* "configure first" warning and nothing else (no run is left sleeping or
\* rerunning, no analysis row is computed), and a non-empty registry never
\* becomes empty.
C5_EmptyRegistryGuard ==
    /\ [](Len(cells_data) = 0 /\ page \in DependentPages =>
            view = "configure_first" /\ pc = "idle" /\ perf_data = <<>>)
    /\ [][Len(cells_data) > 0 => Len(cells_data') > 0]_vars

\* the monitor refused to render over an empty registry
C5_Witness ==
    /\ Len(cells_data) = 0
    /\ page = "Real-time Monitor"
    /\ view = "configure_first"

\* C6: at every lookup site, an identifier absent from the table yields the
\* default (lfp) profile and not a failure.
C6_UnknownChemistryDefaults ==
    (call.op = "lookup" /\ call.cell_type \notin CellTypes) =>
        call.result = CELL_CONFIGS["lfp"]

\* what Save Configuration fixes of a registry: the keys in order and each
\* record's chemistry and bounds
Frame(cells) ==
    [i \in 1..Len(cells) |->
        <<cells[i].key, cells[i].cell_type, cells[i].min_voltage, cells[i].max_voltage>>]

\* the step in which Save Configuration is pressed: the only run that ends
\* on "Configuration saved"
SavePressed == page = "Configuration" /\ page' = page /\ view' = "saved"

\* C7: only Save Configuration changes the set of keys or a record's chemistry
\* or bounds, and every record's bounds are those of its chemistry's profile.
C7_FrameOnlyBySave ==
    /\ [][SavePressed \/ Frame(cells_data') = Frame(cells_data)]_vars
    /\ [](\A i \in AllCells :
            /\ cells_data[i].cell_type \in CellTypes
            /\ cells_data[i].min_voltage = CELL_CONFIGS[cells_data[i].cell_type].min
            /\ cells_data[i].max_voltage = CELL_CONFIGS[cells_data[i].cell_type].max)

\* the monitor's mock refresh has moved a record's voltage off nominal
C7_Witness ==
    /\ page = "Real-time Monitor"
    /\ view \in {"all_normal", "alerts"}
    /\ \E i \in AllCells :
          cells_data[i].voltage # CELL_CONFIGS[cells_data[i].cell_type].nominal

\* C8 as stated: the returned voltage is within 0.1 V and the returned current
\* within 0.5 A of the base, and the temperature is in [25, 45].
C8_WithinJitter ==
    call.op = "generate_mock_data" =>
        /\ Abs(call.result.voltage - call.base_voltage) <= 100
        /\ Abs(call.result.current - call.base_current) <= 500
        /\ 25000 <= call.result.temp /\ call.result.temp <= 45000

\* C8 amended: within 0.1 V and 0.5 A plus half a rounding unit (0.005), and
\* within 0.1 V and 0.5 A exactly when the base is a multiple of 0.01; the
\* temperature is in [25, 45].
C8_WithinJitterRounded ==
    call.op = "generate_mock_data" =>
        /\ Abs(call.result.voltage - call.base_voltage) <= 105
        /\ Abs(call.result.current - call.base_current) <= 505
        /\ call.base_voltage % 10 = 0 => Abs(call.result.voltage - call.base_voltage) <= 100
        /\ call.base_current % 10 = 0 => Abs(call.result.current - call.base_current) <= 500
        /\ 25000 <= call.result.temp /\ call.result.temp <= 45000

\* a base current of 0.007 A with a jitter of 0.499 A is returned as 0.51 A
C8_Witness ==
    /\ call.op = "generate_mock_data"
    /\ call.base_current = 7
    /\ call.result.current = 510
    /\ call.result.temp = 45000

\* C9: on the Analysis page over a non-empty registry the run does not raise,
\* and each row's power density is round(capacity / temp, 3) when temp > 0
\* and 0 otherwise; no temperature is negative.
C9_PowerDensityGuard ==
    /\ \A i \in AllCells : cells_data[i].temp >= 0
    /\ (page = "Analysis" /\ Len(cells_data) > 0) =>
          /\ view = "body"
          /\ Len(perf_data) = Len(cells_data)
          /\ \A i \in AllCells :
                perf_data[i].power_density =
                    IF cells_data[i].temp > 0
                    THEN [value |-> RoundHalfEven(cells_data[i].capacity * 1000,
                                                  cells_data[i].temp)]
                    ELSE [value |-> 0]

\* the Analysis page rendered a record whose temperature slider sits at 0
C9_Witness ==
    /\ page = "Analysis"
    /\ view = "body"
    /\ \E i \in AllCells :
          /\ cells_data[i].temp = 0
          /\ cells_data[i].capacity # 0
          /\ perf_data[i].power_density = [value |-> 0]

\* C10: when a refresh cycle of the monitor ends (the delay is over and the
\* rerun is asked for), the body of the view has been rendered in that cycle.
C10_CycleRendersBody ==
    (page = "Real-time Monitor" /\ pc = "rerun") => view \in {"all_normal", "alerts"}

\* C11: whenever a script run of the Control Panel has finished over a
\* non-empty registry, every record lies within the ranges of the three
\* sliders it is fed into: min_voltage <= voltage <= max_voltage,
\* -10 <= current <= 10 and 0 <= temp <= 60.
C11_WithinSliderRanges ==
    (page = "Control Panel" /\ pc = "idle" /\ Len(cells_data) > 0) =>
        \A i \in AllCells :
            /\ cells_data[i].min_voltage <= cells_data[i].voltage
            /\ cells_data[i].voltage <= cells_data[i].max_voltage
            /\ -10000 <= cells_data[i].current /\ cells_data[i].current <= 10000
            /\ 0 <= cells_data[i].temp /\ cells_data[i].temp <= 60000

\* the measured values of a registry, record by record
Values(cells) ==
    [i \in 1..Len(cells) |->
        <<cells[i].voltage, cells[i].current, cells[i].temp, cells[i].capacity>>]

\* a script run of the Control Panel that reaches the end with none of the
\* three buttons pressed (a pressed button ends on "applied", "stopped" or in
\* a rerun)
NoButtonControlRun == page' = "Control Panel" /\ view' = "body"

\* any step of a session that is on the Real-time Monitor page afterwards: a
\* script run of the monitor, or its delay
MonitorRun == page' = "Real-time Monitor"

\* C12: a Control Panel run with no button pressed, and every Real-time
\* Monitor run, leaves every registry record's voltage, current, temperature
\* and capacity unchanged.
C12_RendersLeaveRegistry ==
    [][(NoButtonControlRun \/ MonitorRun) => Values(cells_data') = Values(cells_data)]_vars

=============================================================================
